---- MODULE Spec2Model ----
(***************************************************************************)
(* The in-memory B-tree of basefs (src/btree.c): btree_init,               *)
(* btree_destroy, btree_search, btree_insert, btree_insert_nonfull and     *)
(* btree_split_child, over a heap of kzalloc'ed btree_node structures.     *)
(*                                                                         *)
(* Node pointers are the positive integers in allocation order; NULL is 0. *)
(* A node keeps its whole keys[] and children[] arrays, the slots beyond   *)
(* num_keys included: kzalloc zeroes them and a split leaves stale values  *)
(* behind, and the code reads such slots after a failed split.             *)
(*                                                                         *)
(* btree_insert_nonfull is tail recursive, so one btree_insert is the      *)
(* step InsertBegin (lines 152-191 up to the call of btree_insert_nonfull) *)
(* followed by one NonfullStep per invocation of btree_insert_nonfull; the *)
(* invocation on a leaf also returns through the call chain and performs   *)
(* the pending tree->root = new_root of line 187.                          *)
(***************************************************************************)
EXTENDS Integers, Sequences, FiniteSets

\* ---------------------------------------------------------------- bounds
MaxKey == 2
MaxInserts == 9
MaxInsertsAfterEnomem == 4
MaxGrowthKey == 4

Keys == 0..MaxKey
\* the keys of the runs that only fill the first root and split it
GrowthKeys == {10 * i : i \in 0..MaxGrowthKey}
AllKeys == Keys \cup GrowthKeys

\* ------------------------------------------------------ program constants
NULL == 0
TreePtr == 1    \* the address kzalloc returns for the struct btree_root
BTREE_ORDER == 4
BTREE_MAX_KEYS == BTREE_ORDER - 1
BTREE_MIN_KEYS == BTREE_MAX_KEYS \div 2

VARIABLES
    mem,        \* the heap: node pointer -> struct btree_node, one entry
                \* per successful kzalloc of a node, in allocation order
    kfreed,     \* the node pointers passed to kfree so far, in order
    tree,       \* the struct btree_root handle the caller holds, or NULL
    treeLive,   \* the struct btree_root allocation is live
    treeFrees,  \* number of kfree calls on the struct btree_root
    root,       \* tree->root
    pc,         \* "start", "idle", "nonfull", "destroyed", "ub"
    key,        \* the key of the btree_insert in progress
    cur,        \* the node argument of the pending btree_insert_nonfull
    new_root,   \* btree_insert's new_root while the call is in progress
    inserted,   \* key -> number of btree_insert calls for it that returned
                \* after storing it
    first,      \* the keys stored so far, in order, while they are at most
                \* BTREE_MAX_KEYS + 1; empty afterwards
    ret,        \* what the last btree_insert call returned to its caller
    failed,     \* some kzalloc has returned NULL
    entry,      \* what held when the btree_insert in progress was entered
    ev,         \* what the last step did
    sres        \* the last btree_search call and its result

vars == <<mem, kfreed, tree, treeLive, treeFrees, root, pc,
          key, cur, new_root, inserted, first, ret, failed, entry, ev, sres>>

\* ------------------------------------------------------------ the heap
KeySlots == 0..(BTREE_MAX_KEYS - 1)
ChildSlots == 0..(BTREE_ORDER - 1)

\* kzalloc(sizeof(struct btree_node)): every field zero
ZeroNode ==
    [is_leaf |-> FALSE, num_keys |-> 0,
     keys |-> [i \in KeySlots |-> 0],
     children |-> [i \in ChildSlots |-> NULL]]

\* the heap after one more successful kzalloc of a node
Kzalloc(m) == [p \in 1..(Len(m) + 1) |-> IF p <= Len(m) THEN m[p] ELSE ZeroNode]

NoEntry == [present |-> FALSE, count |-> 0, total |-> 0, height |-> 0, full |-> FALSE,
            failed |-> FALSE]
NoSearch == [key |-> 0, result |-> "none", again |-> FALSE]

\* ------------------------------------------------------------ btree_search
\* The for loop of lines 131-137 from position i: where it stops, and whether
\* it stopped on an exact match.
RECURSIVE ScanKeysShort(_, _, _)
ScanKeysShort(n, k, i) ==
    IF i >= n.num_keys - 1 THEN [found |-> FALSE, i |-> i]
    ELSE IF k < n.keys[i] THEN [found |-> FALSE, i |-> i]
    ELSE IF k = n.keys[i] THEN [found |-> TRUE, i |-> i]
    ELSE ScanKeysShort(n, k, i + 1)

RECURSIVE ScanKeys(_, _, _)
ScanKeys(n, k, i) ==
    IF i >= n.num_keys THEN [found |-> FALSE, i |-> i]
    ELSE IF k < n.keys[i] THEN [found |-> FALSE, i |-> i]
    ELSE IF k = n.keys[i] THEN [found |-> TRUE, i |-> i]
    ELSE ScanKeys(n, k, i + 1)

\* The while (1) loop of lines 129-145 from `node`; "fault" is a NULL
\* dereference.
RECURSIVE SearchFrom(_, _, _)
SearchFrom(m, node, k) ==
    IF node = NULL THEN "fault"
    ELSE LET s == ScanKeys(m[node], k, 0) IN
         IF s.found THEN "true"
         ELSE IF m[node].is_leaf THEN "false"
         ELSE SearchFrom(m, m[node].children[s.i], k)

btree_search(m, t, r, k) ==
    IF t = NULL \/ r = NULL THEN "false" ELSE SearchFrom(m, r, k)

\* ------------------------------------------------------- btree_split_child
MidLow == (BTREE_MAX_KEYS \div 2) - 1
MidHigh == (BTREE_MAX_KEYS \div 2) + 1

Mid == BTREE_MAX_KEYS \div 2

\* new_node's fields after lines 249-263
SplitSiblingLeaf(fc) ==
    LET nk == BTREE_MAX_KEYS - Mid - 1 IN
    [is_leaf |-> TRUE,
     num_keys |-> nk,
     keys |-> [i \in KeySlots |-> IF i < nk THEN fc.keys[i + Mid + 1] ELSE 0],
     children |-> [i \in ChildSlots |->
                     IF ~fc.is_leaf /\ i <= nk
                     THEN fc.children[i + Mid + 1] ELSE NULL]]

\* (with the children copied from slot i + mid, not i + mid + 1, at line 261)
SplitSiblingShare(fc) ==
    LET nk == BTREE_MAX_KEYS - Mid - 1 IN
    [is_leaf |-> fc.is_leaf,
     num_keys |-> nk,
     keys |-> [i \in KeySlots |-> IF i < nk THEN fc.keys[i + Mid + 1] ELSE 0],
     children |-> [i \in ChildSlots |->
                     IF ~fc.is_leaf /\ i <= nk
                     THEN fc.children[i + Mid] ELSE NULL]]

SplitSibling(fc) ==
    LET nk == BTREE_MAX_KEYS - Mid - 1 IN
    [is_leaf |-> fc.is_leaf,
     num_keys |-> nk,
     keys |-> [i \in KeySlots |-> IF i < nk THEN fc.keys[i + Mid + 1] ELSE 0],
     children |-> [i \in ChildSlots |->
                     IF ~fc.is_leaf /\ i <= nk
                     THEN fc.children[i + Mid + 1] ELSE NULL]]

\* full_child's fields after line 265
SplitFullChildKept(fc) == fc

SplitFullChild(fc) == [fc EXCEPT !.num_keys = Mid]

\* parent's fields after lines 270-285
\* (first without the shifting loops of lines 270-271 and 277-278)
SplitParentNoShift(par, index, new_node, median) ==
    [par EXCEPT
       !.children[index + 1] = new_node,
       !.keys[index] = median,
       !.num_keys = par.num_keys + 1]

\* (and without line 274, parent->children[index + 1] = new_node)
SplitParentNoLink(par, index, new_node, median) ==
    [par EXCEPT
       !.children = [j \in ChildSlots |->
                       IF j = index + 1 THEN NULL
                       ELSE IF j > index + 1 /\ j <= par.num_keys + 1
                            THEN par.children[j - 1]
                       ELSE par.children[j]],
       !.keys = [j \in KeySlots |->
                   IF j = index THEN median
                   ELSE IF j > index /\ j <= par.num_keys
                        THEN par.keys[j - 1]
                   ELSE par.keys[j]],
       !.num_keys = par.num_keys + 1]

SplitParent(par, index, new_node, median) ==
    [par EXCEPT
       !.children = [j \in ChildSlots |->
                       IF j = index + 1 THEN new_node
                       ELSE IF j > index + 1 /\ j <= par.num_keys + 1
                            THEN par.children[j - 1]
                       ELSE par.children[j]],
       !.keys = [j \in KeySlots |->
                   IF j = index THEN median
                   ELSE IF j > index /\ j <= par.num_keys
                        THEN par.keys[j - 1]
                   ELSE par.keys[j]],
       !.num_keys = par.num_keys + 1]

\* The heap after btree_split_child(parent, index) whose kzalloc returned
\* new_node (already in m, zeroed); parent has room for one more key.
\* (first with line 281 reading full_child->keys[mid + 1])
SplitChildWrongMedian(m, parent, index, new_node) ==
    LET full_child == m[parent].children[index]
        fc == m[full_child]
    IN [m EXCEPT
          ![new_node] = SplitSibling(fc),
          ![full_child] = SplitFullChild(fc),
          ![parent] = SplitParent(m[parent], index, new_node, fc.keys[Mid + 1])]

btree_split_child(m, parent, index, new_node) ==
    LET full_child == m[parent].children[index]
        fc == m[full_child]
    IN [m EXCEPT
          ![new_node] = SplitSibling(fc),
          ![full_child] = SplitFullChild(fc),
          ![parent] = SplitParent(m[parent], index, new_node, fc.keys[Mid])]

\* ---------------------------------------------------- btree_insert_nonfull
\* lines 205-209: shift the larger keys right from slot i and store key
RECURSIVE LeafPlace(_, _, _)
LeafPlace(keys, i, k) ==
    IF i >= 1 /\ k < keys[i - 1]
    THEN LeafPlace([keys EXCEPT ![i] = keys[i - 1]], i - 1, k)
    ELSE [keys EXCEPT ![i] = k]

\* lines 201-210 on a leaf with room
LeafInsertAppend(n, k) ==
    [n EXCEPT !.keys[n.num_keys] = k, !.num_keys = n.num_keys + 1]

LeafInsertUnique(n, k) ==
    IF \E i \in 0..(n.num_keys - 1) : n.keys[i] = k
    THEN n
    ELSE [n EXCEPT !.keys = LeafPlace(n.keys, n.num_keys, k),
                   !.num_keys = n.num_keys + 1]

LeafInsert(n, k) ==
    [n EXCEPT !.keys = LeafPlace(n.keys, n.num_keys, k),
              !.num_keys = n.num_keys + 1]

\* lines 215-217: the child slot that should receive key
RECURSIVE ChildSlot(_, _, _)
ChildSlot(keys, i, k) ==
    IF i >= 1 /\ k < keys[i - 1] THEN ChildSlot(keys, i - 1, k) ELSE i

\* lines 223-224: the slot to descend into after btree_split_child(node, i)
SlotAfterSplitStay(n, i, k) == i

SlotAfterSplit(n, i, k) == IF k > n.keys[i] THEN i + 1 ELSE i

\* --------------------------------------------------------- btree_free_node
\* the pointers passed to kfree by btree_free_node(node), in order
RECURSIVE btree_free_node(_, _)
RECURSIVE FreeChildrenShort(_, _, _)
FreeChildrenShort(m, node, i) ==
    IF i >= m[node].num_keys THEN <<>>
    ELSE (IF m[node].children[i] # NULL
          THEN btree_free_node(m, m[node].children[i]) ELSE <<>>)
         \o FreeChildrenShort(m, node, i + 1)

RECURSIVE FreeChildren(_, _, _)
FreeChildren(m, node, i) ==
    IF i > m[node].num_keys THEN <<>>
    ELSE (IF m[node].children[i] # NULL
          THEN btree_free_node(m, m[node].children[i]) ELSE <<>>)
         \o FreeChildren(m, node, i + 1)

btree_free_node(m, node) ==
    (IF ~m[node].is_leaf THEN FreeChildren(m, node, 0) ELSE <<>>) \o <<node>>

\* ------------------------------------------------------- measuring a tree
\* the nodes reachable from node through the slots 0..num_keys, with
\* repetition if a node is reachable twice
RECURSIVE Reach(_, _)
RECURSIVE ReachChildren(_, _, _)
ReachChildren(m, node, i) ==
    IF i > m[node].num_keys THEN <<>>
    ELSE Reach(m, m[node].children[i]) \o ReachChildren(m, node, i + 1)

Reach(m, node) ==
    IF node = NULL THEN <<>>
    ELSE <<node>> \o (IF m[node].is_leaf THEN <<>> ELSE ReachChildren(m, node, 0))

Range(s) == {s[i] : i \in 1..Len(s)}
Nodes(m, r) == Range(Reach(m, r))

\* the keys in use in node p
NodeKeys(m, p) == {m[p].keys[i] : i \in 0..(m[p].num_keys - 1)}
\* the keys stored in the subtree rooted at node
SubtreeKeys(m, node) == UNION {NodeKeys(m, p) : p \in Nodes(m, node)}

RECURSIVE SumKeys(_, _)
SumKeys(m, S) ==
    IF S = {} THEN 0
    ELSE LET p == CHOOSE q \in S : TRUE
         IN m[p].num_keys + SumKeys(m, S \ {p})
\* the number of keys held by the tree rooted at r
TotalKeys(m, r) == SumKeys(m, Nodes(m, r))

\* the number of occurrences of k in node p
Occurrences(m, p, k) == Cardinality({i \in 0..(m[p].num_keys - 1) : m[p].keys[i] = k})
RECURSIVE SumOccurrences(_, _, _)
SumOccurrences(m, S, k) ==
    IF S = {} THEN 0
    ELSE LET p == CHOOSE q \in S : TRUE
         IN Occurrences(m, p, k) + SumOccurrences(m, S \ {p}, k)
CountKey(m, r, k) == SumOccurrences(m, Nodes(m, r), k)

\* the depths (root = 1) at which the leaves below node lie
RECURSIVE LeafDepths(_, _, _)
LeafDepths(m, node, d) ==
    IF node = NULL THEN {}
    ELSE IF m[node].is_leaf THEN {d}
    ELSE UNION {LeafDepths(m, m[node].children[i], d + 1) : i \in 0..m[node].num_keys}

\* height along the leftmost path
RECURSIVE Height(_, _)
Height(m, node) ==
    IF node = NULL THEN 0
    ELSE IF m[node].is_leaf THEN 1
    ELSE 1 + Height(m, m[node].children[0])


\* what btree_insert finds on entry, kept for the properties of the call
EntryOf(m, t, r, k) ==
    [present |-> btree_search(m, t, r, k) = "true",
     count |-> CountKey(m, r, k),
     total |-> TotalKeys(m, r),
     height |-> Height(m, r),
     full |-> r # NULL /\ m[r].num_keys = BTREE_MAX_KEYS,
     failed |-> failed]    \* whether a kzalloc had failed before the call

\* the number of btree_insert calls that stored their key
RECURSIVE SumOver(_, _)
SumOver(f, S) ==
    IF S = {} THEN 0
    ELSE LET k == CHOOSE x \in S : TRUE IN f[k] + SumOver(f, S \ {k})
NumInserted(f) == SumOver(f, AllKeys)

\* ------------------------------------------------------------------ Init
\* nothing is allocated before btree_init
Init ==
    /\ mem = <<>>
    /\ kfreed = <<>>
    /\ tree = NULL
    /\ treeLive = FALSE
    /\ treeFrees = 0
    /\ root = NULL
    /\ pc = "start"
    /\ key = 0
    /\ cur = NULL
    /\ new_root = NULL
    /\ inserted = [k \in AllKeys |-> 0]
    /\ first = <<>>
    /\ ret = "none"
    /\ failed = FALSE
    /\ entry = NoEntry
    /\ ev = "none"
    /\ sres = NoSearch

\* ------------------------------------------------------------ btree_init
\* btree_init without the kfree(tree) of line 76
BtreeInitLeak ==
    /\ pc = "start"
    /\ \E okTree, okRoot \in BOOLEAN :
         /\ okTree \/ okRoot      \* without the tree there is no second kzalloc
         /\ IF ~okTree
            THEN /\ ev' = "init_enomem_tree"
                 /\ UNCHANGED <<mem, tree, treeLive, treeFrees, root>>
            ELSE IF ~okRoot
            THEN /\ ev' = "init_enomem_root"
                 /\ treeLive' = TRUE                  \* allocated at line 66
                 /\ UNCHANGED <<mem, tree, treeFrees, root>>
            ELSE /\ ev' = "init"
                 /\ mem' = <<[ZeroNode EXCEPT !.is_leaf = TRUE, !.num_keys = 0]>>
                 /\ tree' = TreePtr
                 /\ treeLive' = TRUE
                 /\ root' = 1
                 /\ UNCHANGED treeFrees
         /\ failed' = ~(okTree /\ okRoot)
    /\ pc' = "idle"
    /\ UNCHANGED <<kfreed, key, cur, new_root, inserted, first, ret, entry, sres>>

\* okTree, okRoot: whether the two kzalloc calls succeed
BtreeInit ==
    /\ pc = "start"
    /\ \E okTree, okRoot \in BOOLEAN :
         /\ okTree \/ okRoot      \* without the tree there is no second kzalloc
         /\ IF ~okTree
            THEN /\ ev' = "init_enomem_tree"
                 /\ UNCHANGED <<mem, tree, treeLive, treeFrees, root>>
            ELSE IF ~okRoot
            THEN /\ ev' = "init_enomem_root"
                 /\ treeFrees' = treeFrees + 1        \* kfree(tree), line 76
                 /\ treeLive' = FALSE                 \* allocated at line 66, freed
                 /\ UNCHANGED <<mem, tree, root>>
            ELSE /\ ev' = "init"
                 /\ mem' = <<[ZeroNode EXCEPT !.is_leaf = TRUE, !.num_keys = 0]>>
                 /\ tree' = TreePtr
                 /\ treeLive' = TRUE
                 /\ root' = 1
                 /\ UNCHANGED treeFrees
         /\ failed' = ~(okTree /\ okRoot)
    /\ pc' = "idle"
    /\ UNCHANGED <<kfreed, key, cur, new_root, inserted, first, ret, entry, sres>>

\* ---------------------------------------------------------- btree_search
\* btree_search with line 134 written as an assignment, (node->keys[i] = key):
\* the search stores the key in the first slot of the root
BtreeSearchAssign(k) ==
    /\ pc = "idle"
    /\ LET r == btree_search(mem, tree, root, k) IN
         /\ pc' = IF r = "fault" THEN "ub" ELSE "idle"
         /\ sres' = [key |-> k, result |-> r,
                     again |-> (ev = "search" /\ sres.key = k)]
    /\ ev' = "search"
    /\ mem' = IF tree # NULL /\ root # NULL
              THEN [mem EXCEPT ![root].keys[0] = k]
              ELSE mem
    /\ UNCHANGED <<kfreed, tree, treeLive, treeFrees, root, key, cur,
                   new_root, inserted, first, ret, failed, entry>>

BtreeSearch(k) ==
    /\ pc = "idle"
    /\ LET r == btree_search(mem, tree, root, k) IN
         /\ pc' = IF r = "fault" THEN "ub" ELSE "idle"
         /\ sres' = [key |-> k, result |-> r,
                     again |-> (ev = "search" /\ sres.key = k)]
    /\ ev' = "search"
    /\ UNCHANGED <<mem, kfreed, tree, treeLive, treeFrees, root, key, cur,
                   new_root, inserted, first, ret, failed, entry>>

\* ---------------------------------------------------------- btree_insert
\* Lines 163-191 up to the call of btree_insert_nonfull, on a tree with root
\* r: the heap, tree->root, and the pending call.  okRoot and okSplit say
\* whether the kzalloc of line 168 and the one in btree_split_child succeed.
InsertEnterEarlyLink(m, r, okRoot, okSplit) ==
    IF m[r].num_keys = BTREE_MAX_KEYS
    THEN IF ~okRoot
         THEN [mem |-> m, root |-> NULL, pc |-> "idle", cur |-> NULL,
               new_root |-> NULL, ev |-> "root_enomem"]
         ELSE LET nr == Len(m) + 1
                  m1 == [Kzalloc(m) EXCEPT
                           ![nr].is_leaf = FALSE,
                           ![nr].num_keys = 0,
                           ![nr].children[0] = r]
              IN [mem |-> IF okSplit
                          THEN btree_split_child(Kzalloc(m1), nr, 0, nr + 1)
                          ELSE m1,
                  root |-> r, pc |-> "nonfull", cur |-> nr, new_root |-> nr,
                  ev |-> IF okSplit THEN "grow" ELSE "grow_split_enomem"]
    ELSE [mem |-> m, root |-> r, pc |-> "nonfull", cur |-> r,
          new_root |-> NULL, ev |-> "enter"]

InsertEnter(m, r, okRoot, okSplit) ==
    IF m[r].num_keys = BTREE_MAX_KEYS
    THEN IF ~okRoot
         THEN \* lines 169-170
              [mem |-> m, root |-> r, pc |-> "idle", cur |-> NULL,
               new_root |-> NULL, ev |-> "root_enomem"]
         ELSE LET nr == Len(m) + 1
                  m1 == [Kzalloc(m) EXCEPT
                           ![nr].is_leaf = FALSE,
                           ![nr].num_keys = 0,
                           ![nr].children[0] = r]
              IN [mem |-> IF okSplit
                          THEN btree_split_child(Kzalloc(m1), nr, 0, nr + 1)
                          ELSE m1,
                  root |-> r, pc |-> "nonfull", cur |-> nr, new_root |-> nr,
                  ev |-> IF okSplit THEN "grow" ELSE "grow_split_enomem"]
    ELSE [mem |-> m, root |-> r, pc |-> "nonfull", cur |-> r,
          new_root |-> NULL, ev |-> "enter"]

\* What btree_insert hands back to its caller when it returns after e: the
\* function is void (line 152) and every return is a bare one (lines 158,
\* 161, 170, 192).
InsertReturn(e) == "void"

InsertBegin(k) ==
    /\ pc = "idle"
    /\ NumInserted(inserted) < (IF failed THEN MaxInsertsAfterEnomem ELSE MaxInserts)
    /\ sres' = NoSearch
    /\ entry' = EntryOf(mem, tree, root, k)
    /\ key' = k
    /\ UNCHANGED <<kfreed, tree, treeLive, treeFrees, inserted, first>>
    /\ IF tree = NULL \/ root = NULL
       THEN \* lines 157-161
            /\ ev' = "insert_null"
            /\ ret' = InsertReturn("insert_null")
            /\ UNCHANGED <<mem, root, pc, cur, new_root, failed>>
       ELSE \E okRoot, okSplit \in BOOLEAN :
              \* a kzalloc that is not reached has no outcome
              /\ mem[root].num_keys # BTREE_MAX_KEYS => okRoot /\ okSplit
              /\ ~okRoot => okSplit
              /\ LET e == InsertEnter(mem, root, okRoot, okSplit) IN
                   /\ mem' = e.mem
                   /\ root' = e.root
                   /\ pc' = e.pc
                   /\ cur' = e.cur
                   /\ new_root' = e.new_root
                   /\ ev' = e.ev
                   /\ ret' = IF e.pc = "idle" THEN InsertReturn(e.ev) ELSE ret
                   /\ failed' = (failed \/ ~okRoot \/ ~okSplit)

\* One invocation of btree_insert_nonfull(cur, key), lines 197-228; on a leaf
\* it stores the key and the call chain returns into btree_insert, line 187.
\* A NULL node, a key written at keys[BTREE_MAX_KEYS] and a child written at
\* children[BTREE_ORDER] are undefined behaviour: the run stops in "ub", the
\* overflowing store either trapped or performed.
NonfullStep ==
    /\ pc = "nonfull"
    /\ UNCHANGED <<kfreed, tree, treeLive, treeFrees, key, entry, sres>>
    /\ IF cur # NULL /\ mem[cur].is_leaf /\ mem[cur].num_keys < BTREE_MAX_KEYS
       THEN /\ ret' = InsertReturn("leaf")
            /\ first' = IF NumInserted(inserted) <= BTREE_MAX_KEYS /\ Len(first) = NumInserted(inserted)
                        THEN Append(first, key) ELSE <<>>
       ELSE UNCHANGED <<first, ret>>
    /\ IF cur = NULL
       THEN \* line 199 dereferences NULL
            /\ pc' = "ub"
            /\ ev' = "ub_null"
            /\ UNCHANGED <<mem, root, cur, new_root, inserted, failed>>
       ELSE IF mem[cur].is_leaf
       THEN IF mem[cur].num_keys >= BTREE_MAX_KEYS
            THEN \* lines 206/209 write keys[num_keys] beyond the array
                 /\ pc' = "ub"
                 /\ ev' = "ub_leaf_overflow"
                 /\ \E stored \in BOOLEAN :
                      mem' = IF stored
                             THEN [mem EXCEPT ![cur].num_keys = @ + 1]
                             ELSE mem
                 /\ UNCHANGED <<root, cur, new_root, inserted, failed>>
            ELSE /\ mem' = [mem EXCEPT ![cur] = LeafInsert(@, key)]
                 /\ root' = IF new_root # NULL THEN new_root ELSE root
                 /\ new_root' = NULL
                 /\ cur' = NULL
                 /\ inserted' = [inserted EXCEPT ![key] = @ + 1]
                 /\ pc' = "idle"
                 /\ ev' = "leaf"
                 /\ UNCHANGED failed
       ELSE LET i == ChildSlot(mem[cur].keys, mem[cur].num_keys, key)
                child == mem[cur].children[i]
            IN IF child = NULL
               THEN \* line 221 dereferences NULL
                    /\ pc' = "ub"
                    /\ ev' = "ub_null"
                    /\ UNCHANGED <<mem, root, cur, new_root, inserted, failed>>
               ELSE IF mem[child].num_keys = BTREE_MAX_KEYS
               THEN \E ok \in BOOLEAN :
                      IF ok /\ mem[cur].num_keys >= BTREE_MAX_KEYS
                      THEN \* lines 270-274 write children[BTREE_ORDER]
                           /\ pc' = "ub"
                           /\ ev' = "ub_split_overflow"
                           /\ mem' = Kzalloc(mem)
                           /\ UNCHANGED <<root, cur, new_root, inserted, failed>>
                      ELSE IF ok
                      THEN LET m2 == btree_split_child(Kzalloc(mem), cur, i, Len(mem) + 1)
                           IN /\ mem' = m2
                              /\ cur' = m2[cur].children[SlotAfterSplit(m2[cur], i, key)]
                              /\ ev' = "split"
                              /\ UNCHANGED <<root, new_root, inserted, failed, pc>>
                      ELSE IF i >= BTREE_MAX_KEYS
                      THEN \* line 223 reads keys[BTREE_MAX_KEYS]
                           /\ pc' = "ub"
                           /\ ev' = "ub_key_read"
                           /\ failed' = TRUE
                           /\ UNCHANGED <<mem, root, cur, new_root, inserted>>
                      ELSE \* lines 246-247: the split returned without a word
                           /\ cur' = mem[cur].children[SlotAfterSplit(mem[cur], i, key)]
                           /\ ev' = "split_enomem"
                           /\ failed' = TRUE
                           /\ UNCHANGED <<mem, root, new_root, inserted, pc>>
               ELSE /\ cur' = child
                    /\ ev' = "descend"
                    /\ UNCHANGED <<mem, root, new_root, inserted, failed, pc>>

\* --------------------------------------------------------- btree_destroy
BtreeDestroy ==
    /\ pc = "idle"
    /\ pc' = "destroyed"
    /\ IF tree = NULL
       THEN \* lines 107-108
            /\ ev' = "destroy_null"
            /\ UNCHANGED <<kfreed, treeLive, treeFrees>>
       ELSE /\ ev' = "destroy"
            /\ kfreed' = kfreed \o (IF root # NULL THEN btree_free_node(mem, root) ELSE <<>>)
            /\ treeFrees' = treeFrees + 1
            /\ treeLive' = FALSE
    \* the caller's last search result and the record of the last insert go
    \* with the handle
    /\ sres' = NoSearch
    /\ entry' = NoEntry
    /\ UNCHANGED <<mem, tree, root, key, cur, new_root, inserted, first, ret, failed>>

Next ==
    \/ BtreeInit
    \/ \E k \in Keys : BtreeSearch(k)
    \/ \E k \in Keys : InsertBegin(k)
    \/ NonfullStep
    \/ BtreeDestroy

Spec == Init /\ [][Next]_vars

\* the runs that make at most BTREE_MAX_KEYS + 1 btree_insert calls, with
\* keys from GrowthKeys
GrowthInsert(k) ==
    /\ NumInserted(inserted) < BTREE_MAX_KEYS + 1
    /\ InsertBegin(k)

NextGrowth ==
    \/ BtreeInit
    \/ \E k \in GrowthKeys : BtreeSearch(k)
    \/ \E k \in GrowthKeys : GrowthInsert(k)
    \/ NonfullStep
    \/ BtreeDestroy

SpecGrowth == Init /\ [][NextGrowth]_vars

\* the node allocations not yet passed to kfree
Live == {p \in 1..Len(mem) : \A j \in 1..Len(kfreed) : kfreed[j] # p}


\* the node at the top of the tree, the pending new root included
Top == IF new_root # NULL THEN new_root ELSE root
Allocated == 1..Len(mem)
\* no allocation has failed and nothing undefined has happened
Sound == ~failed /\ pc # "ub"
AtRest == pc = "idle" /\ tree # NULL

\* ------------------------------------------------------------------ C1
\* C1: with every allocation succeeding, after btree_init and any sequence
\* of completed btree_insert calls, btree_search(tree, k) is true for every
\* key k that was inserted and false for every key that was not; a
\* btree_search call that returned has returned exactly that.
SearchCorrect ==
    (Sound /\ AtRest) =>
        /\ \A k \in Keys :
             btree_search(mem, tree, root, k)
                 = (IF inserted[k] > 0 THEN "true" ELSE "false")
        /\ sres.result # "none" =>
             sres.result = (IF inserted[sres.key] > 0 THEN "true" ELSE "false")

\* a search that found its key below the root of a tree of height >= 2,
\* while some other key was never inserted
SearchCorrectWitness ==
    /\ Sound /\ AtRest
    /\ Height(mem, root) >= 2
    /\ sres.result = "true"
    /\ sres.key \notin NodeKeys(mem, root)
    /\ \E k \in Keys : inserted[k] = 0

\* ------------------------------------------------------------------ C2
KeysBelow(p, i) == SubtreeKeys(mem, mem[p].children[i])
InternalNodes == {p \in Nodes(mem, root) : ~mem[p].is_leaf}

\* C2 as stated: after any sequence of btree_insert calls (re-insertions
\* included, allocations succeeding) every key below children[i] is strictly
\* less than keys[i] and every key below children[i+1] is >= keys[i].
OrderStrict ==
    (Sound /\ AtRest) =>
        \A p \in InternalNodes : \A i \in 0..(mem[p].num_keys - 1) :
            /\ \A x \in KeysBelow(p, i) : x < mem[p].keys[i]
            /\ \A x \in KeysBelow(p, i + 1) : x >= mem[p].keys[i]

\* C2 amended: every key below children[i] is less than or equal to keys[i]
\* and every key below children[i+1] is greater than or equal to keys[i].
OrderWeak ==
    (Sound /\ AtRest) =>
        \A p \in InternalNodes : \A i \in 0..(mem[p].num_keys - 1) :
            /\ \A x \in KeysBelow(p, i) : x <= mem[p].keys[i]
            /\ \A x \in KeysBelow(p, i + 1) : x >= mem[p].keys[i]

\* a tree of three distinct keys in which a separator also occurs below its
\* left child
OrderWeakWitness ==
    /\ Sound /\ AtRest
    /\ Cardinality(SubtreeKeys(mem, root)) >= 3
    /\ \E p \in InternalNodes : \E i \in 0..(mem[p].num_keys - 1) :
         /\ mem[p].keys[i] \in KeysBelow(p, i)
         /\ \E x \in KeysBelow(p, i) : x < mem[p].keys[i]

\* ------------------------------------------------------------------ C3
\* C3 as stated: a step of btree_insert in which the kzalloc of
\* btree_split_child fails ends the insert (no further btree_insert_nonfull
\* call is pending) and leaves tree->root and every node as they were.
SplitEnomemAborts ==
    [][ev' \in {"split_enomem", "grow_split_enomem"} =>
          /\ pc' = "idle"
          /\ root' = root
          /\ \A p \in Allocated : mem'[p] = mem[p]]_vars

\* ------------------------------------------------------------------ C4
\* C4: with every allocation succeeding, in every state of every
\* btree_insert each node's num_keys is in 0..BTREE_MAX_KEYS, the node of a
\* pending btree_insert_nonfull call holds fewer than BTREE_MAX_KEYS keys,
\* and no store beyond a keys or children array has happened.
KeyCountBound ==
    ~failed =>
        /\ pc # "ub"
        /\ \A p \in Allocated : mem[p].num_keys \in 0..BTREE_MAX_KEYS
        /\ pc = "nonfull" => cur # NULL /\ mem[cur].num_keys < BTREE_MAX_KEYS

\* btree_insert_nonfull is about to run on the half it chose after a split
\* below the root, and that half has room
KeyCountBoundWitness ==
    /\ ~failed
    /\ pc = "nonfull"
    /\ ev = "split"
    /\ cur # NULL
    /\ mem[cur].num_keys = Mid
    /\ cur # Top

\* ------------------------------------------------------------------ C5
\* C5 as stated: in every state reachable by btree_insert calls on a fresh
\* tree the keys in use of every node are strictly increasing.
KeysStrictlyIncreasing ==
    pc # "ub" =>
        \A p \in Allocated : \A i \in 0..(mem[p].num_keys - 2) :
            mem[p].keys[i] < mem[p].keys[i + 1]

\* C5 amended: the keys in use of every node are non-decreasing.
KeysNonDecreasing ==
    pc # "ub" =>
        \A p \in Allocated : \A i \in 0..(mem[p].num_keys - 2) :
            mem[p].keys[i] <= mem[p].keys[i + 1]

\* a node that holds one key twice, next to a larger one
KeysNonDecreasingWitness ==
    /\ pc = "idle"
    /\ \E p \in Allocated :
         /\ mem[p].num_keys = BTREE_MAX_KEYS
         /\ mem[p].keys[0] = mem[p].keys[1]
         /\ mem[p].keys[1] < mem[p].keys[2]


\* ------------------------------------------------------------------ C6
\* the step in which a btree_insert call returns to its caller
InsertReturns == ev' \in {"leaf", "root_enomem"}
\* the key of the returning call was stored, once more than before
StoredOnceMore ==
    /\ TotalKeys(mem', root') = entry'.total + 1
    /\ CountKey(mem', root', key') = entry'.count + 1
    /\ btree_search(mem', tree', root', key') = "true"

\* C6: a btree_insert of a key already stored, in a run whose allocations
\* all succeed, is not rejected: when it returns the tree holds one more key,
\* one more occurrence of k, and btree_search(tree, k) is true.
DuplicateStored ==
    [][(InsertReturns /\ pc' = "idle" /\ entry'.present /\ ~failed')
          => StoredOnceMore]_vars

\* a key already stored was inserted again into a tree of height >= 2
DuplicateStoredWitness ==
    /\ Sound /\ AtRest
    /\ ev = "leaf"
    /\ entry.present
    /\ inserted[key] >= 2
    /\ CountKey(mem, root, key) = inserted[key]
    /\ Height(mem, root) >= 2

\* ------------------------------------------------------------------ C7
\* C7: when btree_insert finds the root full and the kzalloc of the new root
\* fails, the call returns with tree->root and every node unchanged, no node
\* allocated, and the key not inserted.
RootEnomemNoEffect ==
    [][ev' = "root_enomem" =>
          /\ pc' = "idle"
          /\ mem' = mem
          /\ root' = root
          /\ tree' = tree
          /\ inserted' = inserted
          /\ \A k \in Keys :
               btree_search(mem', tree', root', k) = btree_search(mem, tree, root, k)]_vars

\* the new root could not be allocated for a key that is not in the tree
RootEnomemNoEffectWitness ==
    /\ pc = "idle"
    /\ ev = "root_enomem"
    /\ entry.full
    /\ mem[root].num_keys = BTREE_MAX_KEYS
    /\ ~entry.present
    /\ btree_search(mem, tree, root, key) = "false"

\* ------------------------------------------------------------------ C8
\* C8: with every allocation succeeding, every node other than the root (the
\* two halves of a split included, as soon as the split is done) holds at
\* least BTREE_MIN_KEYS keys, and the root holds no key only while no key
\* has been inserted.
MinOccupancy ==
    (Sound /\ tree # NULL) =>
        /\ BTREE_MIN_KEYS = 1
        /\ \A p \in Allocated \ {Top} : mem[p].num_keys >= BTREE_MIN_KEYS
        /\ (pc = "idle" /\ mem[root].num_keys = 0) => NumInserted(inserted) = 0

\* a split below the root has just left two halves of BTREE_MIN_KEYS keys
MinOccupancyWitness ==
    /\ Sound
    /\ ev = "split"
    /\ LET i == CHOOSE j \in ChildSlots : mem[root].children[j] = Len(mem)
       IN /\ i >= 1
          /\ mem[mem[root].children[i]].num_keys = BTREE_MIN_KEYS
          /\ mem[mem[root].children[i - 1]].num_keys = BTREE_MIN_KEYS

\* ------------------------------------------------------------------ C9
Balanced(m, r) == Cardinality(LeafDepths(m, r, 1)) = 1

\* C9: with every allocation succeeding, all leaves are at the same depth
\* after every btree_insert, and a btree_insert leaves the height as it was
\* unless it was entered with a full root, when the height grows by one.
Balance ==
    /\ []((Sound /\ AtRest) => Balanced(mem, root))
    /\ [][(Sound' /\ pc # "start" /\ tree # NULL) =>
            /\ Height(mem', root') # Height(mem, root) =>
                 ev' = "leaf" /\ entry.full
            /\ ev' = "leaf" =>
                 Height(mem', root')
                     = entry.height + (IF entry.full THEN 1 ELSE 0)]_vars

\* the root of a tree of height 2 was full and the tree has grown to height 3
BalanceWitness ==
    /\ Sound /\ AtRest
    /\ ev = "leaf"
    /\ entry.full
    /\ entry.height = 2
    /\ Height(mem, root) = 3
    /\ LeafDepths(mem, root, 1) = {3}

\* ----------------------------------------------------------------- C10
\* the number of kfree calls on node p
KfreeCount(p) == Cardinality({j \in 1..Len(kfreed) : kfreed[j] = p})

\* C10: after btree_destroy of a tree built by btree_init and successful
\* btree_insert calls, every node ever allocated and the tree handle have
\* been passed to kfree exactly once and nothing is live; btree_destroy of a
\* NULL handle frees nothing and changes nothing.
DestroyComplete ==
    /\ []((pc = "destroyed" /\ ev = "destroy" /\ ~failed) =>
            /\ \A p \in Allocated : KfreeCount(p) = 1
            /\ Range(kfreed) = Allocated
            /\ Live = {}
            /\ treeFrees = 1
            /\ ~treeLive)
    /\ [][ev' = "destroy_null" =>
            UNCHANGED <<mem, kfreed, tree, treeLive, treeFrees, root>>]_vars

\* a tree of height 3 has been destroyed
DestroyCompleteWitness ==
    /\ pc = "destroyed"
    /\ ev = "destroy"
    /\ ~failed
    /\ Height(mem, root) = 3
    /\ Len(kfreed) = Len(mem)
    /\ Len(mem) >= 7

\* ------------------------------------------------------------------ C11
\* C11: btree_search leaves the root pointer and every node's is_leaf,
\* num_keys, keys and children as they were (and allocates and frees
\* nothing), and a search that repeats the previous search on the tree it
\* left returns what that search returned.
SearchReadOnly ==
    [][ev' = "search" =>
          /\ mem' = mem /\ root' = root /\ tree' = tree
          /\ kfreed' = kfreed /\ treeLive' = treeLive
          /\ sres'.again => sres'.result = sres.result]_vars

\* the same key searched twice in a row, found, in a tree of height 3
SearchReadOnlyWitness ==
    /\ ev = "search"
    /\ sres.again
    /\ sres.result = "true"
    /\ Height(mem, root) = 3

\* ------------------------------------------------------------------ C12
\* the median of the three keys of s[1..3], duplicates counted
Median3(s) ==
    CHOOSE x \in {s[1], s[2], s[3]} :
        /\ Cardinality({i \in 1..3 : s[i] < x}) <= 1
        /\ Cardinality({i \in 1..3 : s[i] > x}) <= 1
InUseKeys(n) == [i \in 1..n.num_keys |-> n.keys[i - 1]]

\* C12: in a fresh tree (every allocation succeeding) the height is 1 while
\* at most BTREE_MAX_KEYS keys are stored; once any BTREE_MAX_KEYS + 1 keys
\* are stored the height is 2, the root has exactly 1 key, the median of the
\* first three keys inserted, and exactly two children in use, both leaves;
\* after 10, 20, 30, 40 the root is [20], its left child [10] and its right
\* child [30,40].
HeightGrowth ==
    (Sound /\ AtRest /\ Len(first) = NumInserted(inserted)) =>
        /\ Len(first) <= BTREE_MAX_KEYS =>
              /\ Height(mem, root) = 1
              /\ Len(mem) = 1
        /\ Len(first) = BTREE_MAX_KEYS + 1 =>
              /\ Height(mem, root) = 2
              /\ ~mem[root].is_leaf
              /\ mem[root].num_keys = 1
              /\ mem[root].keys[0] = Median3(first)
              /\ Len(mem) = 3
              /\ \A i \in 0..1 :
                    /\ mem[root].children[i] \in Allocated \ {root}
                    /\ mem[mem[root].children[i]].is_leaf
              /\ mem[root].children[0] # mem[root].children[1]
        /\ first = <<10, 20, 30, 40>> =>
              /\ InUseKeys(mem[root]) = <<20>>
              /\ InUseKeys(mem[mem[root].children[0]]) = <<10>>
              /\ InUseKeys(mem[mem[root].children[1]]) = <<30, 40>>

\* 10, 20, 30, 40 inserted in that order into a fresh tree
HeightGrowthWitness ==
    /\ Sound /\ AtRest
    /\ first = <<10, 20, 30, 40>>
    /\ Height(mem, root) = 2

\* ------------------------------------------------------------------ C13
\* C13: btree_init on success returns a tree whose root is a leaf with 0
\* keys; when the kzalloc of the tree handle or of the root node fails it
\* returns NULL, and then neither the handle nor any node is left
\* allocated (the handle, if it was obtained, has been passed to kfree
\* exactly once).
InitAllOrNothing ==
    /\ ev = "init" =>
          /\ tree # NULL /\ treeLive /\ treeFrees = 0
          /\ Len(mem) = 1 /\ root = 1
          /\ mem[root].is_leaf /\ mem[root].num_keys = 0
          /\ Live = {root}
    /\ ev = "init_enomem_tree" => (tree = NULL /\ treeFrees = 0)
    /\ ev = "init_enomem_root" => (tree = NULL /\ treeFrees = 1)
    /\ (pc # "start" /\ tree = NULL) =>
          /\ ~treeLive
          /\ mem = <<>> /\ Live = {}
          /\ root = NULL

\* btree_init has just failed on the root node and released the handle
InitAllOrNothingWitness ==
    /\ ev = "init_enomem_root"
    /\ tree = NULL
    /\ treeFrees = 1
    /\ ~treeLive

\* ------------------------------------------------------------------ C14
\* a btree_insert call returns in this step, and a kzalloc (of the new root,
\* line 168, or of a split sibling, line 245) failed during the call
InsertReturnsAfterEnomem ==
    /\ pc' = "idle"
    /\ ev' \in {"root_enomem", "leaf"}
    /\ failed' /\ ~entry'.failed

\* C14: a btree_insert call in which an allocation failed returns to its
\* caller something different from what a btree_insert that stored its key
\* returns.
InsertSignalsEnomem ==
    [][InsertReturnsAfterEnomem => ret' # InsertReturn("leaf")]_vars

\* ------------------------------------------------------------------ C15
InUseChildren(n) == [i \in 1..(n.num_keys + 1) |-> n.children[i - 1]]
InsertAt(seq, pos, x) == SubSeq(seq, 1, pos - 1) \o <<x>> \o SubSeq(seq, pos, Len(seq))

\* A step in which btree_split_child ran to its end: from
\* btree_insert_nonfull (line 222) or from btree_insert (line 179).  The
\* heap, parent and index it was called with; in btree_insert the parent is
\* the new root as lines 172-174 have set it up.
SplitDone == ev' \in {"split", "grow"}
SplitHeap ==
    IF ev' = "grow"
    THEN [Kzalloc(mem) EXCEPT ![Len(mem) + 1].is_leaf = FALSE,
                              ![Len(mem) + 1].num_keys = 0,
                              ![Len(mem) + 1].children[0] = root]
    ELSE mem
SplitParentPtr == IF ev' = "grow" THEN Len(mem) + 1 ELSE cur
SplitIndex ==
    IF ev' = "grow" THEN 0 ELSE ChildSlot(mem[cur].keys, mem[cur].num_keys, key)

\* C15: btree_split_child(parent, index) on a child with keys k0, k1, k2
\* (its kzalloc succeeding, the parent not full) leaves the child with keys
\* [k0] and, if internal, its first two children; the new sibling has the
\* child's is_leaf, keys [k2] and, if internal, the child's last two
\* children; the parent's keys are its old keys with k1 inserted at index,
\* its children its old children with the sibling inserted at index + 1,
\* its num_keys one more; no other node changes.
SplitEffect ==
    [][SplitDone =>
         LET m0 == SplitHeap
             p == SplitParentPtr
             index == SplitIndex
             c == m0[p].children[index]
             sib == Len(m0) + 1
             old == m0[c]
         IN /\ old.num_keys = BTREE_MAX_KEYS
            /\ m0[p].num_keys < BTREE_MAX_KEYS
            /\ Len(mem') = Len(m0) + 1
            /\ InUseKeys(mem'[c]) = <<old.keys[0]>>
            /\ mem'[c].is_leaf = old.is_leaf
            /\ ~old.is_leaf =>
                  InUseChildren(mem'[c]) = <<old.children[0], old.children[1]>>
            /\ InUseKeys(mem'[sib]) = <<old.keys[2]>>
            /\ mem'[sib].is_leaf = old.is_leaf
            /\ ~old.is_leaf =>
                  InUseChildren(mem'[sib]) = <<old.children[2], old.children[3]>>
            /\ InUseKeys(mem'[p]) = InsertAt(InUseKeys(m0[p]), index + 1, old.keys[1])
            /\ InUseChildren(mem'[p]) = InsertAt(InUseChildren(m0[p]), index + 2, sib)
            /\ mem'[p].num_keys = m0[p].num_keys + 1
            /\ mem'[p].is_leaf = m0[p].is_leaf
            /\ \A q \in (1..Len(m0)) \ {p, c} : mem'[q] = m0[q]
            /\ root' = root]_vars

\* the leftmost child of a two-key root has just been split: the root's old
\* keys and children moved one slot right
SplitEffectWitness ==
    /\ ev = "split"
    /\ pc = "nonfull"
    /\ mem[Top].num_keys = BTREE_MAX_KEYS
    /\ mem[Top].children[1] = Len(mem)

\* ------------------------------------------------------------------ C16
\* C16: when btree_insert_nonfull has split the full child at slot i of an
\* internal node, it goes on into the new right sibling (slot i + 1) exactly
\* when the promoted median is less than or equal to the key, and into the
\* left half (slot i) exactly when the key is less than the median.
DescentAfterSplit ==
    [][ev' = "split" =>
         LET i == SplitIndex
             median == mem'[cur].keys[i]
         IN /\ (cur' = mem'[cur].children[i + 1]) <=> (median <= key)
            /\ (cur' = mem'[cur].children[i]) <=> (key < median)]_vars

\* ------------------------------------------------------------------ C17
\* the slots the descent of btree_search (lines 131-144) can follow from
\* node p: the loop leaves i in 0..num_keys
DescentSlots(p) == 0..mem[p].num_keys

\* C17: after every completed btree_insert, every allocation succeeding,
\* every internal node reachable from the root has at least one key, at
\* most BTREE_MAX_KEYS, and an allocated, non-NULL child in each of its
\* slots 0..num_keys; no search from the root follows a NULL child, nor
\* does the descent of btree_insert_nonfull for any key.
ChildSlotsFilled ==
    (Sound /\ AtRest) =>
        /\ \A p \in InternalNodes :
              /\ mem[p].num_keys >= 1
              /\ mem[p].num_keys <= BTREE_MAX_KEYS
              /\ DescentSlots(p) \subseteq ChildSlots
              /\ \A i \in DescentSlots(p) :
                    /\ mem[p].children[i] # NULL
                    /\ mem[p].children[i] \in Allocated
              /\ \A k \in Keys :
                    ChildSlot(mem[p].keys, mem[p].num_keys, k) \in DescentSlots(p)
        /\ \A k \in Keys : btree_search(mem, tree, root, k) # "fault"
        /\ sres.result # "fault"

\* an insert has completed in a tree of three internal nodes: a root and
\* its two internal children
ChildSlotsFilledWitness ==
    /\ Sound /\ AtRest
    /\ ev = "leaf"
    /\ Cardinality(InternalNodes) = 3
    /\ \A i \in DescentSlots(root) : ~mem[mem[root].children[i]].is_leaf

\* ------------------------------------------------------------------ C18
\* the nodes met going down from node through the slots 0..num_keys, one
\* entry per path, paths cut after fuel nodes
RECURSIVE Walk(_, _, _)
RECURSIVE WalkChildren(_, _, _, _)
WalkChildren(m, node, i, fuel) ==
    IF i > m[node].num_keys THEN <<>>
    ELSE Walk(m, m[node].children[i], fuel) \o WalkChildren(m, node, i + 1, fuel)

Walk(m, node, fuel) ==
    IF node = NULL \/ fuel = 0 THEN <<>>
    ELSE <<node>> \o (IF m[node].is_leaf THEN <<>>
                      ELSE WalkChildren(m, node, 0, fuel - 1))

NoRepeat(s) == \A i, j \in 1..Len(s) : i # j => s[i] # s[j]

\* C18: whenever an operation has completed on a tree, every node
\* allocated for it and not freed is reached from the root through in-use
\* child slots by exactly one path: no node is met twice (none is shared,
\* none is its own ancestor) and none is out of reach; after btree_destroy
\* no node is left.  Allocation failures included.
TreeShaped ==
    /\ AtRest =>
          LET w == Walk(mem, root, Len(mem) + 1) IN
            /\ NoRepeat(w)
            /\ Range(w) = Live
            /\ Live = Allocated
    /\ (pc = "destroyed" /\ tree # NULL) => Live = {}

\* at rest with a root, two internal nodes below it and their leaves
TreeShapedWitness ==
    /\ AtRest
    /\ Height(mem, root) = 3
    /\ Len(mem) >= 7
    /\ Len(Walk(mem, root, Len(mem) + 1)) = Len(mem)

\* ------------------------------------------------------------------ C19
\* C19: with every allocation succeeding, the keys stored in the nodes
\* reachable from the root (from the pending new root while an insert is
\* under way) hold each key exactly as many times as btree_insert calls for
\* it have completed, before and after every split and root growth; no
\* allocated node holds a key outside that tree.
KeysConserved ==
    (Sound /\ tree # NULL /\ pc \in {"idle", "nonfull"}) =>
        /\ \A k \in Keys :
              /\ CountKey(mem, Top, k) = inserted[k]
              /\ SumOccurrences(mem, Allocated, k) = inserted[k]
        /\ TotalKeys(mem, Top) = NumInserted(inserted)
        /\ SumKeys(mem, Allocated) = NumInserted(inserted)

\* a key inserted more than once sits in two different nodes of a tree of
\* height 3, another key in between was inserted too
KeysConservedWitness ==
    /\ Sound /\ AtRest
    /\ Height(mem, root) = 3
    /\ \E k \in Keys :
          /\ inserted[k] >= 2
          /\ Cardinality({p \in Nodes(mem, root) : k \in NodeKeys(mem, p)}) >= 2
    /\ \A k \in Keys : inserted[k] >= 1

====
